---------------------------- MODULE Spec2Model ----------------------------
(***************************************************************************)
(* A model of the read-only, versioned FUSE namespace of camlistore        *)
(* (pkg/fs/versions.go and pkg/fs/rover.go):                               *)
(*   versionsDir    the top-level directory of roots (refreshed on a TTL)  *)
(*   roDirV         a directory built from camliPath:<name> attributes     *)
(*   roFileLikeDir  a file shown as the directory of its versions          *)
(*   roFileVersion  one version of a file                                  *)
(* Every handler of the fuse node protocol is one action.  What the search *)
(* client and the file reader answer is an input of the action, drawn from *)
(* small sets.                                                             *)
(***************************************************************************)
EXTENDS Integers, Sequences, FiniteSets, TLC

VARIABLES
    now,       \* time.Now(), in seconds since the process started
    vd,        \* the versionsDir: lastQuery, m, children
    nodes,     \* the heap of roDirV / roFileLikeDir / roFileVersion objects
    last,      \* the handler that ran last: its arguments and what it returned
    lastOK,    \* history: when condRefresh last queried and returned nil
    panicked,  \* a handler dereferenced nil: the process is gone
    threads    \* the calls in progress, one for each thread serving requests

vars == <<now, vd, nodes, last, lastOK, panicked, threads>>

----------------------------------------------------------------------------
(* Bounds of the model *)

\* Number of node objects that Lookup and populate may allocate.
MaxNodes == 4
\* The clock stops here.
MaxTicks == 2
\* Claims that GetClaims returns for one permanode.
MaxClaims == 2
\* Threads that serve requests at the same time.
MaxThreads == 2

----------------------------------------------------------------------------
(* Go values *)

\* A nil pointer / nil map, and a non-nil one holding v.
Nil == [isNil |-> TRUE]
Some(v) == [isNil |-> FALSE, v |-> v]
IsNil(x) == x.isNil

\* An empty, non-nil Go map, as a function with an empty domain.
EmptyMap == << >>
MapPut(f, k, v) == [x \in DOMAIN f \cup {k} |-> IF x = k THEN v ELSE f[x]]

\* fuse errors; OK is a nil error.
OK == "ok"
EIO == "EIO"
ENOENT == "ENOENT"
EPERM == "EPERM"

----------------------------------------------------------------------------
(* blob.Ref: a digest, 0 for the zero Ref.  Sum64 is the leading 8 bytes   *)
(* of the digest: a digest is modelled as a number, and Sum64 drops its    *)
(* low part, of DigestTail values.                                         *)

ZeroRef == 0
DigestTail == 4
Valid(br) == br # ZeroRef
Sum64(br) == br \div DigestTail

\* The string form of a ref, "sha1-<digest>", and blob.Parse of a string.
RefString(br) == <<"sha1", br>>
BadString == <<"bad">>
Parse(s) ==
    IF Len(s) = 2 /\ s[1] = "sha1" /\ s[2] # ZeroRef
    THEN [ok |-> TRUE, ref |-> s[2]]
    ELSE [ok |-> FALSE, ref |-> ZeroRef]
ParseOrZero(s) == Parse(s).ref

\* res.Meta[key]: nil when the key is not described.
MetaGet(meta, s) ==
    IF Parse(s).ok /\ Parse(s).ref \in DOMAIN meta THEN meta[Parse(s).ref] ELSE Nil

----------------------------------------------------------------------------
(* Time *)

\* versionsRefreshTime = 1 * time.Minute, in seconds.
versionsRefreshTime == 60
\* The clock advances by half a refresh period.
TickStep == versionsRefreshTime \div 2
\* The process starts long after the zero time.Time.
StartTime == 2 * versionsRefreshTime
ZeroTime == 0
MaxNow == StartTime + MaxTicks * TickStep


----------------------------------------------------------------------------
(* Strings are sequences of tokens; "" is the empty sequence.              *)

EmptyString == << >>

\* strings.Replace(s, old, "-", -1) for a one-token old.
ReplaceAll(s, old) == [i \in DOMAIN s |-> IF s[i] = old THEN "-" ELSE s[i]]

\* search.DescribedBlob: a permanode blob with its attributes, or a file.
\* A permanode's Attr maps a key to the list of its values.
DescribedPermanode(br, attr) ==
    Some([BlobRef |-> br, CamliType |-> "permanode",
          Permanode |-> Some(attr), File |-> Nil])
DescribedFile(br, size) ==
    Some([BlobRef |-> br, CamliType |-> "file",
          Permanode |-> Nil, File |-> Some([Size |-> size])])
DescribedOther(br, camliType) ==
    Some([BlobRef |-> br, CamliType |-> camliType, Permanode |-> Nil, File |-> Nil])

\* url.Values.Get: the first value of the key, "" when there is none.
AttrGet(attr, key) ==
    IF key \in DOMAIN attr /\ Len(attr[key]) >= 1 THEN attr[key][1] ELSE EmptyString

----------------------------------------------------------------------------
(* What the search client can answer to versionsDir.condRefresh *)

RootPermanodes == {4, 8}
ImportPermanodes == {12}
RootNames == {<<"photos">>, <<"music">>}
ImportRootNames == {<<"a", ":", "b">>}

\* WithAttrResponse.WithAttr: a list of permanodes, without repetition.
ListsOf(S) ==
    {<< >>} \cup {<<a>> : a \in S}
    \cup {l \in {<<a, b>> : a \in S, b \in S} : l[1] # l[2]}

\* What Describe can say of a permanode found by the camliRoot search.
RootDescribed(pn) ==
    {Nil, DescribedOther(pn, "file"), DescribedPermanode(pn, EmptyMap)}
    \cup {DescribedPermanode(pn, [k \in {<<"camliRoot">>} |-> <<name>>]) :
            name \in RootNames}
ImportDescribed(pn) ==
    {Nil, DescribedPermanode(pn, EmptyMap)}
    \cup {DescribedPermanode(pn, [k \in {<<"camliImportRoot">>} |-> <<name>>]) :
            name \in ImportRootNames}

\* The described blobs of one Describe answer, a nil entry standing for an
\* absent key of res.Meta.
RefreshMetas(rootRes, impRes) ==
    LET S == {rootRes[i] : i \in DOMAIN rootRes} \cup {impRes[i] : i \in DOMAIN impRes}
    IN  {meta \in [S -> UNION {RootDescribed(p) \cup ImportDescribed(p) : p \in S}] :
            \A p \in S : meta[p] \in (IF p \in RootPermanodes THEN RootDescribed(p)
                                       ELSE ImportDescribed(p))}

NoMeta == << >>
RefreshInput(rootErr, impErr, rootRes, impRes, descErr, meta) ==
    [rootErr |-> rootErr, impErr |-> impErr, rootRes |-> rootRes,
     impRes |-> impRes, descErr |-> descErr, meta |-> meta]

\* Every answer, each once: the later answers of a failed refresh are never
\* read and are left out.
RefreshInputs ==
    {RefreshInput(TRUE, FALSE, << >>, << >>, FALSE, NoMeta),
     RefreshInput(FALSE, TRUE, << >>, << >>, FALSE, NoMeta),
     RefreshInput(TRUE, TRUE, << >>, << >>, FALSE, NoMeta)}
    \cup {RefreshInput(FALSE, FALSE, r, i, TRUE, NoMeta) :
            r \in ListsOf(RootPermanodes), i \in ListsOf(ImportPermanodes)}
    \cup UNION {{RefreshInput(FALSE, FALSE, r, i, FALSE, meta) :
                    meta \in RefreshMetas(r, i)} :
                r \in ListsOf(RootPermanodes), i \in ListsOf(ImportPermanodes)}

----------------------------------------------------------------------------
(* versionsDir *)

\* The range of a list.
Range(s) == {s[i] : i \in DOMAIN s}

\* The "Roots" loop of condRefresh over rootRes.WithAttr[1..k]: the names
\* found (currentRoots) and n.m.
RECURSIVE RootsLoop(_, _, _, _)
RootsLoop(rootRes, meta, k, acc) ==
    IF k > Len(rootRes) THEN acc
    ELSE LET pn == rootRes[k]
             db == MetaGet(meta, RefString(pn))
             name == IF ~IsNil(db) /\ ~IsNil(db.v.Permanode)
                     THEN AttrGet(db.v.Permanode.v, <<"camliRoot">>)
                     ELSE EmptyString
         IN  IF name # EmptyString
             THEN RootsLoop(rootRes, meta, k + 1,
                            [currentRoots |-> acc.currentRoots \cup {name},
                             m |-> MapPut(acc.m, name, pn)])
             ELSE RootsLoop(rootRes, meta, k + 1, acc)

\* "Remove any children objects we have mapped that are no longer relevant."
EvictChildren(children, currentRoots) ==
    [name \in DOMAIN children \cap currentRoots |-> children[name]]

\* The name of an import root: ':' and '/' replaced by '-', after "importer-".
ImporterName(name) == <<"importer-">> \o ReplaceAll(ReplaceAll(name, ":"), "/")

\* The "Importers" loop of condRefresh over impRes.WithAttr[1..k].
RECURSIVE ImportersLoop(_, _, _, _)
ImportersLoop(impRes, meta, k, m) ==
    IF k > Len(impRes) THEN m
    ELSE LET pn == impRes[k]
             db == MetaGet(meta, RefString(pn))
             name == IF ~IsNil(db) /\ ~IsNil(db.v.Permanode)
                     THEN AttrGet(db.v.Permanode.v, <<"camliImportRoot">>)
                     ELSE EmptyString
         IN  IF name # EmptyString
             THEN ImportersLoop(impRes, meta, k + 1, MapPut(m, ImporterName(name), pn))
             ELSE ImportersLoop(impRes, meta, k + 1, m)

\* lastQuery.After(time.Now().Add(-versionsRefreshTime))
Fresh(lastQuery, t) == lastQuery > t - versionsRefreshTime

\* What condRefresh leaves and returns: the node, the error, the number of
\* GetPermanodesWithAttr and of Describe calls it made.
RefreshResult(v, err, searches, describes) ==
    [vd |-> v, err |-> err, searches |-> searches, describes |-> describes]

\* A condRefresh that would set lastQuery as soon as the two searches have
\* returned, before Describe: a failed Describe then counts as a refresh.
condRefreshStampsEarly(v, t, in) ==
    IF Fresh(v.lastQuery, t) THEN RefreshResult(v, OK, 0, 0)
    ELSE IF in.rootErr \/ in.impErr THEN RefreshResult(v, EIO, 2, 0)
    ELSE
      LET v1 == [v EXCEPT !.lastQuery = t, !.m = EmptyMap,
                          !.children = IF IsNil(v.children) THEN Some(EmptyMap)
                                       ELSE v.children]
          blobRefs == in.rootRes \o in.impRes
      IN  IF Len(blobRefs) = 0 THEN RefreshResult(v1, OK, 2, 0)
          ELSE IF in.descErr THEN RefreshResult(v1, EIO, 2, 1)
          ELSE
            LET roots == RootsLoop(in.rootRes, in.meta, 1,
                                   [currentRoots |-> {}, m |-> EmptyMap])
                kept == EvictChildren(v1.children.v, roots.currentRoots)
                m2 == ImportersLoop(in.impRes, in.meta, 1, roots.m)
            IN  RefreshResult([lastQuery |-> t, m |-> m2, children |-> Some(kept)],
                              OK, 2, 1)

\* versionsDir.condRefresh at time t, the client answering in.
condRefresh(v, t, in) ==
    IF Fresh(v.lastQuery, t) THEN RefreshResult(v, OK, 0, 0)
    ELSE IF in.rootErr \/ in.impErr THEN RefreshResult(v, EIO, 2, 0)
    ELSE
      LET v1 == [v EXCEPT !.m = EmptyMap,
                          !.children = IF IsNil(v.children) THEN Some(EmptyMap)
                                       ELSE v.children]
          blobRefs == in.rootRes \o in.impRes
      IN  IF Len(blobRefs) = 0 THEN RefreshResult(v1, OK, 2, 0)
          ELSE IF in.descErr THEN RefreshResult(v1, EIO, 2, 1)
          ELSE
            LET roots == RootsLoop(in.rootRes, in.meta, 1,
                                   [currentRoots |-> {}, m |-> EmptyMap])
                kept == EvictChildren(v1.children.v, roots.currentRoots)
                m2 == ImportersLoop(in.impRes, in.meta, 1, roots.m)
            IN  RefreshResult([lastQuery |-> t, m |-> m2, children |-> Some(kept)],
                              OK, 2, 1)

----------------------------------------------------------------------------
(* The record of the handler that ran last *)

\* op, node (0: the versionsDir) and name: the call.  write: an Open asked
\* to write.  err, ents, ret, attr, flags: what it returned (ret is the node
\* returned, 0 for none; flags are the response's).  searches, describes,
\* claims: the GetPermanodesWithAttr, Describe and GetClaims calls it made;
\* nclaims: the claims GetClaims returned; readers: the NewFileReader calls.
\* fault: what the collaborator did wrong in it.  expect: the entries its
\* answer defines.  asked: for each camliPath name of the directory's answer,
\* what the answer says of the child.
NoCall ==
    [op |-> "none", node |-> 0, name |-> EmptyString, write |-> FALSE,
     err |-> OK, ents |-> {}, ret |-> 0, attr |-> Nil, flags |-> {},
     searches |-> 0, describes |-> 0, claims |-> 0, nclaims |-> 0, readers |-> 0,
     fault |-> "none", expect |-> {}, asked |-> << >>]

\* fuse.Dirent
Dirent(name, inode) == [Name |-> name, Inode |-> inode]

\* The fault of a refresh, from the calls made and the error returned.
RefreshFault(r) ==
    IF r.err = OK THEN "none"
    ELSE IF r.describes = 0 THEN "GetPermanodesWithAttr" ELSE "Describe"

----------------------------------------------------------------------------
(* The threads of the fuse server: each request is served by a goroutine.   *)

Threads == 1 .. MaxThreads

\* A thread that serves no request.
Idle == [pc |-> "idle"]
NoThreads == [t \in Threads |-> Idle]

----------------------------------------------------------------------------
(* Construction *)

\* newRODirV(fs, permanode, name)
newRODirV(permanode, name) ==
    [kind |-> "roDirV", permanode |-> permanode, parent |-> 0, name |-> name,
     children |-> Nil, xattrs |-> Nil]

\* &versionsDir{fs: fs}: every field is the zero value.
newVersionsDir == [lastQuery |-> ZeroTime, m |-> EmptyMap, children |-> Nil]

Init ==
    /\ now = StartTime
    /\ vd = newVersionsDir
    /\ nodes = << >>
    /\ last = NoCall
    /\ lastOK = ZeroTime
    /\ panicked = FALSE
    /\ threads = NoThreads

\* Time passes between two calls.
Tick ==
    /\ ~panicked
    /\ now + TickStep <= MaxNow
    /\ now' = now + TickStep
    /\ UNCHANGED <<vd, nodes, last, lastOK, panicked>>
    /\ UNCHANGED threads

----------------------------------------------------------------------------
(* versionsDir handlers *)

\* The names a caller looks up: every name a refresh can list.
EntryNames == RootNames \cup {ImporterName(n) : n \in ImportRootNames}

\* The answers the client can give to a condRefresh at time t: none is drawn
\* when condRefresh makes no call.
NoAnswer == RefreshInput(FALSE, FALSE, << >>, << >>, FALSE, NoMeta)
RefreshAnswers(v, t) == IF Fresh(v.lastQuery, t) THEN {NoAnswer} ELSE RefreshInputs

\* What condRefresh can leave and return at time t, over every answer.
Refreshes(v, t) == {condRefresh(v, t, in) : in \in RefreshAnswers(v, t)}

\* History: the time of the last refresh that queried and returned nil.
RefreshedAt(r, t, before) == IF r.searches > 0 /\ r.err = OK THEN t ELSE before

\* versionsDir.ReadDir
VersionsReadDir ==
    /\ ~panicked
    /\ \E r \in Refreshes(vd, now) :
             /\ vd' = r.vd
             /\ lastOK' = RefreshedAt(r, now, lastOK)
             /\ last' = [NoCall EXCEPT
                           !.op = "ReadDir", !.err = r.err,
                           !.ents = IF r.err = OK
                                    THEN {Dirent(name, 0) : name \in DOMAIN r.vd.m}
                                    ELSE {},
                           !.searches = r.searches, !.describes = r.describes,
                           !.fault = RefreshFault(r)]
    /\ UNCHANGED <<now, nodes, panicked>>
    /\ UNCHANGED threads

\* versionsDir.Lookup
VersionsLookup ==
    /\ ~panicked
    /\ \E r \in Refreshes(vd, now), name \in EntryNames :
         LET br == IF name \in DOMAIN r.vd.m THEN r.vd.m[name] ELSE ZeroRef
             call == [NoCall EXCEPT
                        !.op = "Lookup", !.name = name,
                        !.searches = r.searches, !.describes = r.describes,
                        !.fault = RefreshFault(r)]
         IN  /\ lastOK' = RefreshedAt(r, now, lastOK)
             /\ IF r.err # OK
                THEN /\ vd' = r.vd
                     /\ last' = [call EXCEPT !.err = r.err]
                     /\ UNCHANGED <<nodes, panicked>>
                ELSE IF ~Valid(br)
                THEN /\ vd' = r.vd
                     /\ last' = [call EXCEPT !.err = ENOENT]
                     /\ UNCHANGED <<nodes, panicked>>
                ELSE IF IsNil(r.vd.children)
                THEN \* n.children[name] = nod on a nil map
                     /\ vd' = r.vd
                     /\ last' = [call EXCEPT !.err = "panic"]
                     /\ panicked' = TRUE
                     /\ UNCHANGED nodes
                ELSE IF name \in DOMAIN r.vd.children.v
                THEN /\ vd' = r.vd
                     /\ last' = [call EXCEPT !.ret = r.vd.children.v[name]]
                     /\ UNCHANGED <<nodes, panicked>>
                ELSE /\ Len(nodes) < MaxNodes
                     /\ nodes' = Append(nodes, newRODirV(br, name))
                     /\ vd' = [r.vd EXCEPT
                                 !.children = Some(MapPut(r.vd.children.v, name,
                                                          Len(nodes) + 1))]
                     /\ last' = [call EXCEPT !.ret = Len(nodes) + 1]
                     /\ UNCHANGED panicked
    /\ UNCHANGED now
    /\ UNCHANGED threads

----------------------------------------------------------------------------
(* What the search client can answer to roDirV.populate *)

PathNames == {<<"a">>, <<"b">>}
ContentRefs == {24, 28}

\* The attributes of a described child: a symlink target, a camliPath entry
\* of its own (which makes it a directory) and a camliContent, each or not.
ChildAttr(sym, dir, content) ==
    LET keys == (IF sym THEN {<<"camliSymlinkTarget">>} ELSE {})
                \cup (IF dir THEN {<<"camliPath:", "x">>} ELSE {})
                \cup (IF content THEN {<<"camliContent">>} ELSE {})
    IN  [k \in keys |->
            IF k = <<"camliSymlinkTarget">> THEN <<(<<"target">>)>>
            ELSE IF k = <<"camliContent">> THEN <<RefString(24)>>
            ELSE <<RefString(20)>>]

\* How a child can be described: not at all, as a blob that is no
\* permanode, or as a permanode with some of the three attributes.
ChildShape(described, permanode, sym, dir, content) ==
    [described |-> described, permanode |-> permanode,
     sym |-> sym, dir |-> dir, content |-> content]
ChildShapes ==
    {ChildShape(FALSE, FALSE, FALSE, FALSE, FALSE),
     ChildShape(TRUE, FALSE, FALSE, FALSE, FALSE)}
    \cup {ChildShape(TRUE, TRUE, sym, dir, content) :
            sym \in BOOLEAN, dir \in BOOLEAN, content \in BOOLEAN}
ChildDescribed(pn, sh) ==
    IF ~sh.described THEN Nil
    ELSE IF ~sh.permanode THEN DescribedOther(pn, "file")
    ELSE DescribedPermanode(pn, ChildAttr(sh.sym, sh.dir, sh.content))

\* The size of a content blob: a blob never changes, so neither does its size.
SizeOf(br) == br - 14

ContentDescribed(br) ==
    {Nil, DescribedFile(br, SizeOf(br)), DescribedOther(br, "directory")}

\* The camliPath:<name> attributes of a directory permanode: each name is
\* absent or points to its child, a to 16 and b to 20.
ChildOf(name) == IF name = <<"a">> THEN 16 ELSE 20
PathAttrs ==
    {[k \in {<<"camliPath:", n[1]>> : n \in names} |-> <<RefString(ChildOf(Tail(k)))>>] :
       names \in SUBSET PathNames}

\* The children a directory's attributes point to.
PathTargets(attr) == {ParseOrZero(attr[k][1]) : k \in DOMAIN attr}

\* A Describe answer: an error, or the described blobs.
DirAnswer(err, meta) == [err |-> err, meta |-> meta]

\* The described blobs of an answer that describes the directory pn with
\* the attributes attr, its children as sh says and the content 24 as content.
DirMeta(pn, attr, sh, content) ==
    [r \in {pn, 24} \cup PathTargets(attr) |->
        IF r = pn THEN DescribedPermanode(pn, attr)
        ELSE IF r = 24 THEN content
        ELSE ChildDescribed(r, sh[r])]

DirAnswers(pn) ==
    {DirAnswer(TRUE, NoMeta),
     DirAnswer(FALSE, [r \in {pn} |-> Nil]),
     DirAnswer(FALSE, [r \in {pn} |-> DescribedOther(pn, "file")])}
    \cup UNION {{DirAnswer(FALSE, DirMeta(pn, attr, sh, content)) :
                    sh \in [PathTargets(attr) \ {pn} -> ChildShapes],
                    content \in ContentDescribed(24)} :
                attr \in PathAttrs}

----------------------------------------------------------------------------
(* roDirV *)

\* isDir: a permanode with a camliPath:<name> attribute is a directory.
isDir(attr) == \E k \in DOMAIN attr : k[1] = "camliPath:"

\* xattr.load: the extended attributes of a node are those attributes of its
\* permanode that are named xattr:<name>.
load(attr) == Some([k \in {x \in DOMAIN attr : x[1] = "xattr:"} |-> attr[k]])

\* What populate leaves and returns.  made: nil when n.children is left as
\* it was, else the child objects by name that n.children now holds (they
\* get their heap index when the handler commits).  panic: it dereferenced
\* nil.  describes, claims: the Describe and GetClaims calls made; nclaims:
\* the claims GetClaims returned; fault: what the client did wrong.
PopulateResult(made, err, describes, claims, nclaims, fault, panic) ==
    [made |-> made, err |-> err, describes |-> describes,
     claims |-> claims, nclaims |-> nclaims, fault |-> fault, panic |-> panic]

\* A loop body that would test isDir before camliSymlinkTarget.
DirChildDirFirst(id, meta, attr, k) ==
    LET name == Tail(k)
        childRef == attr[k][1]
        child == MetaGet(meta, childRef)
        cattr == child.v.Permanode.v
        target == AttrGet(cattr, <<"camliSymlinkTarget">>)
        contentRef == AttrGet(cattr, <<"camliContent">>)
        content == MetaGet(meta, contentRef)
    IN  IF IsNil(child) THEN Nil
        ELSE IF isDir(cattr)
        THEN Some([kind |-> "roDirV", permanode |-> ParseOrZero(childRef),
                   parent |-> id, name |-> name, children |-> Nil,
                   xattrs |-> load(cattr)])
        ELSE IF target # EmptyString
        THEN Some([kind |-> "roFileLikeDir", permanode |-> ParseOrZero(childRef),
                   parent |-> id, name |-> name, symLink |-> TRUE,
                   target |-> target, children |-> Nil, xattrs |-> load(cattr)])
        ELSE IF contentRef # EmptyString
        THEN IF IsNil(content) THEN Nil
             ELSE IF content.v.CamliType # "file" THEN Nil
             ELSE Some([kind |-> "roFileLikeDir", permanode |-> ParseOrZero(childRef),
                        parent |-> id, name |-> name, symLink |-> FALSE,
                        target |-> EmptyString, children |-> Nil,
                        xattrs |-> load(cattr)])
        ELSE Nil

\* The child object that the loop body of roDirV.populate makes for the
\* attribute key k of the directory id, nil when the attribute is skipped.
DirChild(id, meta, attr, k) ==
    LET name == Tail(k)
        childRef == attr[k][1]
        child == MetaGet(meta, childRef)
        cattr == child.v.Permanode.v
        target == AttrGet(cattr, <<"camliSymlinkTarget">>)
        contentRef == AttrGet(cattr, <<"camliContent">>)
        content == MetaGet(meta, contentRef)
    IN  IF IsNil(child) THEN Nil
        ELSE IF target # EmptyString
        THEN Some([kind |-> "roFileLikeDir", permanode |-> ParseOrZero(childRef),
                   parent |-> id, name |-> name, symLink |-> TRUE,
                   target |-> target, children |-> Nil, xattrs |-> load(cattr)])
        ELSE IF isDir(cattr)
        THEN Some([kind |-> "roDirV", permanode |-> ParseOrZero(childRef),
                   parent |-> id, name |-> name, children |-> Nil,
                   xattrs |-> load(cattr)])
        ELSE IF contentRef # EmptyString
        THEN IF IsNil(content) THEN Nil
             ELSE IF content.v.CamliType # "file" THEN Nil
             ELSE Some([kind |-> "roFileLikeDir", permanode |-> ParseOrZero(childRef),
                        parent |-> id, name |-> name, symLink |-> FALSE,
                        target |-> EmptyString, children |-> Nil,
                        xattrs |-> load(cattr)])
        ELSE Nil

\* The attribute keys the loop of roDirV.populate does not skip at once.
PathKeys(attr) == {k \in DOMAIN attr : k[1] = "camliPath:" /\ Len(attr[k]) >= 1}

\* The loop dereferences child.Permanode of a described child.
DirChildPanics(meta, attr, k) ==
    LET child == MetaGet(meta, attr[k][1])
    IN  ~IsNil(child) /\ IsNil(child.v.Permanode)

\* A populate that would give up, with an error, at the first camliPath
\* attribute that makes no child.
roDirVPopulateStrict(n, id, ans) ==
    IF ~IsNil(n.children) THEN PopulateResult(Nil, OK, 0, 0, 0, "none", FALSE)
    ELSE IF ans.err THEN PopulateResult(Nil, OK, 1, 0, 0, "Describe", FALSE)
    ELSE
      LET db == MetaGet(ans.meta, RefString(n.permanode))
      IN  IF IsNil(db)
          THEN PopulateResult(Nil, "dir blobref not described", 1, 0, 0,
                              "notDescribed", FALSE)
          ELSE IF IsNil(db.v.Permanode)
          THEN PopulateResult(Nil, OK, 1, 0, 0, "none", TRUE)
          ELSE
            LET attr == db.v.Permanode.v
                keys == PathKeys(attr)
            IN  IF \E k \in keys : DirChildPanics(ans.meta, attr, k)
                THEN PopulateResult(Nil, OK, 1, 0, 0, "none", TRUE)
                ELSE IF \E k \in keys : IsNil(DirChild(id, ans.meta, attr, k))
                THEN PopulateResult(Nil, "child not resolved", 1, 0, 0, "none", FALSE)
                ELSE PopulateResult(
                       Some([name \in {Tail(k) : k \in keys} |->
                               DirChild(id, ans.meta, attr, <<"camliPath:">> \o name).v]),
                       OK, 1, 0, 0, "none", FALSE)

\* A populate that would not look at n.children first and ask the client at
\* every call.
roDirVPopulateAgain(n, id, ans) ==
    IF ans.err THEN PopulateResult(Nil, OK, 1, 0, 0, "Describe", FALSE)
    ELSE IF IsNil(MetaGet(ans.meta, RefString(n.permanode)))
    THEN PopulateResult(Nil, "dir blobref not described", 1, 0, 0, "notDescribed", FALSE)
    ELSE PopulateResult(Some(EmptyMap), OK, 1, 0, 0, "none", FALSE)

\* roDirV.populate on the directory object n at heap index id, the client
\* answering ans.
roDirVPopulate(n, id, ans) ==
    IF ~IsNil(n.children) THEN PopulateResult(Nil, OK, 0, 0, 0, "none", FALSE)
    ELSE IF ans.err THEN PopulateResult(Nil, OK, 1, 0, 0, "Describe", FALSE)
    ELSE
      LET db == MetaGet(ans.meta, RefString(n.permanode))
      IN  IF IsNil(db)
          THEN PopulateResult(Nil, "dir blobref not described", 1, 0, 0,
                              "notDescribed", FALSE)
          ELSE IF IsNil(db.v.Permanode)
          THEN PopulateResult(Nil, OK, 1, 0, 0, "none", TRUE)
          ELSE
            LET attr == db.v.Permanode.v
                keys == PathKeys(attr)
                made == {k \in keys : ~DirChildPanics(ans.meta, attr, k)
                                      /\ ~IsNil(DirChild(id, ans.meta, attr, k))}
            IN  IF \E k \in keys : DirChildPanics(ans.meta, attr, k)
                THEN PopulateResult(Nil, OK, 1, 0, 0, "none", TRUE)
                ELSE PopulateResult(
                       Some([name \in {Tail(k) : k \in made} |->
                               DirChild(id, ans.meta, attr, <<"camliPath:">> \o name).v]),
                       OK, 1, 0, 0, "none", FALSE)

----------------------------------------------------------------------------
(* What the search client can answer to roFileLikeDir.populate *)

\* The instants a claim can be dated.
ClaimDates == {1, 2}

\* Time3339.String: the instant, rendered.
DateString(date) == <<"T", date>>

\* A claim with what Describe answers for its value at its date: an error
\* ("err"), no entry for the value ("nil"), a blob that is no file ("other")
\* or the file ("file").
Claim(date, value, describe) == [Date |-> date, Value |-> value, describe |-> describe]
Claims ==
    {Claim(date, BadString, "nil") : date \in ClaimDates}
    \cup {Claim(date, RefString(c), "file") : date \in ClaimDates, c \in ContentRefs}
    \cup {Claim(date, RefString(24), d) : date \in ClaimDates, d \in {"err", "nil"}}
    \cup {Claim(date, RefString(28), "other") : date \in ClaimDates}

\* The claim lists of at most len claims: two claims of a list differ in
\* their date or in their value.
RECURSIVE ClaimLists(_)
ClaimLists(len) ==
    IF len = 0 THEN {<< >>}
    ELSE ClaimLists(len - 1)
         \cup UNION {{Append(l, c) :
                        c \in {x \in Claims :
                                 \A i \in DOMAIN l : \/ l[i].Date # x.Date
                                                     \/ l[i].Value # x.Value}} :
                     l \in {x \in ClaimLists(len - 1) : Len(x) = len - 1}}

ClaimsAnswer(err, claims) == [err |-> err, claims |-> claims]
ClaimsAnswers ==
    {ClaimsAnswer(TRUE, << >>)}
    \cup {ClaimsAnswer(FALSE, l) : l \in ClaimLists(MaxClaims)}

----------------------------------------------------------------------------
(* roFileLikeDir *)

\* A roFileVersion that would carry the ref of its content as its permanode.
newROFileVersionOfContent(n, id, cl, db) ==
    [kind |-> "roFileVersion", permanode |-> db.BlobRef, parent |-> id,
     name |-> DateString(cl.Date), content |-> db.BlobRef,
     size |-> db.File.v.Size, symLink |-> FALSE, target |-> EmptyString,
     mtime |-> ZeroTime, atime |-> ZeroTime, xattrs |-> Nil]

\* The roFileVersion made for the claim cl of the file object n at heap
\* index id, db being the described content.
newROFileVersion(n, id, cl, db) ==
    [kind |-> "roFileVersion", permanode |-> n.permanode, parent |-> id,
     name |-> DateString(cl.Date), content |-> db.BlobRef,
     size |-> db.File.v.Size, symLink |-> FALSE, target |-> EmptyString,
     mtime |-> ZeroTime, atime |-> ZeroTime, xattrs |-> Nil]

\* What Describe answers for the claim cl.
ClaimDescribed(cl) ==
    LET pn == Parse(cl.Value).ref
    IN  IF cl.describe = "file" THEN DescribedFile(pn, SizeOf(pn))
        ELSE IF cl.describe = "other" THEN DescribedOther(pn, "permanode")
        ELSE Nil

\* The loop of roFileLikeDir.populate from the k-th claim on, n.children
\* holding children and calls Describe calls having been made.
RECURSIVE VersionsLoop(_, _, _, _, _, _)
VersionsLoop(n, id, claims, k, children, calls) ==
    IF k > Len(claims)
    THEN PopulateResult(Some(children), OK, calls, 1, Len(claims), "none", FALSE)
    ELSE
      LET cl == claims[k]
          db == ClaimDescribed(cl)
      IN  IF ~Parse(cl.Value).ok
          THEN PopulateResult(Some(children), "invalid blobref", calls, 1,
                              Len(claims), "parse", FALSE)
          ELSE IF cl.describe = "err"
          THEN PopulateResult(Some(children), OK, calls + 1, 1, Len(claims),
                              "Describe", FALSE)
          ELSE IF IsNil(db)
          THEN PopulateResult(Some(children), "dir blobref not described", calls + 1,
                              1, Len(claims), "notDescribed", FALSE)
          ELSE IF IsNil(db.v.File)
          THEN PopulateResult(Some(children), OK, calls + 1, 1, Len(claims),
                              "none", TRUE)
          ELSE VersionsLoop(n, id, claims, k + 1,
                            MapPut(children, DateString(cl.Date),
                                   newROFileVersion(n, id, cl, db.v)),
                            calls + 1)

\* roFileLikeDir.populate on the file object n at heap index id, the client
\* answering ans.
roFileLikeDirPopulate(n, id, ans) ==
    IF ~IsNil(n.children) THEN PopulateResult(Nil, OK, 0, 0, 0, "none", FALSE)
    ELSE IF ans.err
    THEN PopulateResult(Nil, "fs.roFileLikeDir: GetClaims error in ReadDir:", 0, 1, 0,
                        "GetClaims", FALSE)
    ELSE VersionsLoop(n, id, ans.claims, 1, EmptyMap, 0)

----------------------------------------------------------------------------
(* The handlers of roDirV and roFileLikeDir *)

\* The elements of a set in some order: the order in which the objects made
\* by one populate are laid out in the heap.
Enum(S) == CHOOSE l \in [1 .. Cardinality(S) -> S] : Range(l) = S
IndexOf(l, x) == CHOOSE i \in DOMAIN l : l[i] = x

\* The heap after populate returned o on the object at index id.
Commit(heap, id, o) ==
    IF IsNil(o.made) THEN heap
    ELSE LET names == Enum(DOMAIN o.made.v)
             index == [name \in DOMAIN o.made.v |-> Len(heap) + IndexOf(names, name)]
         IN  [heap EXCEPT ![id].children = Some(index)]
             \o [i \in DOMAIN names |-> o.made.v[names[i]]]

\* The objects populate made.
Made(o) == IF IsNil(o.made) THEN {} ELSE DOMAIN o.made.v

\* The inode that the ReadDir of roDirV and of roFileLikeDir gives an entry:
\* the type switch knows *roDirV and *roFileVersion.
DirentInode(child) ==
    IF child.kind = "roDirV" THEN Sum64(child.permanode)
    ELSE IF child.kind = "roFileVersion" THEN Sum64(child.permanode)
    ELSE 0

\* A ReadDir that would list the directories among the children only.
DirentsOfDirs(heap, children) ==
    IF IsNil(children) THEN {}
    ELSE {Dirent(name, DirentInode(heap[children.v[name]])) :
            name \in {x \in DOMAIN children.v : heap[children.v[x]].kind = "roDirV"}}

\* The entries ReadDir lists from the children of a directory; a nil map
\* lists nothing.
Dirents(heap, children) ==
    IF IsNil(children) THEN {}
    ELSE {Dirent(name, DirentInode(heap[children.v[name]])) : name \in DOMAIN children.v}

\* The names a child of a directory can have that its answer resolves: the
\* child is described as a permanode that is a symlink, a directory, or a
\* file whose content is described as a file.
ResolvableNames(pn, ans) ==
    IF ans.err \/ IsNil(MetaGet(ans.meta, RefString(pn))) THEN {}
    ELSE IF IsNil(MetaGet(ans.meta, RefString(pn)).v.Permanode) THEN {}
    ELSE LET attr == MetaGet(ans.meta, RefString(pn)).v.Permanode.v
         IN  {Tail(k) : k \in
                {k \in DOMAIN attr :
                   LET child == MetaGet(ans.meta, attr[k][1])
                   IN  /\ ~IsNil(child)
                       /\ ~IsNil(child.v.Permanode)
                       /\ \/ <<"camliSymlinkTarget">> \in DOMAIN child.v.Permanode.v
                          \/ isDir(child.v.Permanode.v)
                          \/ /\ <<"camliContent">> \in DOMAIN child.v.Permanode.v
                             /\ ~IsNil(ans.meta[24])
                             /\ ans.meta[24].v.CamliType = "file"}}

\* The versions the claims of an answer define when every claim resolves to
\* a file: one for each claim.
ExpectedVersions(ans) ==
    IF \E i \in DOMAIN ans.claims : ans.claims[i].describe # "file" THEN {}
    ELSE {[Name |-> DateString(ans.claims[i].Date),
           content |-> ParseOrZero(ans.claims[i].Value),
           size |-> SizeOf(ParseOrZero(ans.claims[i].Value)),
           claim |-> i] : i \in DOMAIN ans.claims}

\* What an answer says of the child of each camliPath name of the directory
\* pn: whether it is described, and as a permanode; whether it has a symlink
\* target; whether it is a directory; and its content: none, not described
\* ("nil"), described as a file or as another blob.
AskedChildren(pn, ans) ==
    LET db == MetaGet(ans.meta, RefString(pn))
    IN  IF ans.err \/ IsNil(db) THEN << >>
        ELSE IF IsNil(db.v.Permanode) THEN << >>
        ELSE LET attr == db.v.Permanode.v
             IN  [name \in {Tail(k) : k \in PathKeys(attr)} |->
                    LET child == MetaGet(ans.meta, attr[<<"camliPath:">> \o name][1])
                        isPn == ~IsNil(child) /\ ~IsNil(child.v.Permanode)
                        cattr == IF isPn THEN child.v.Permanode.v ELSE EmptyMap
                        content == MetaGet(ans.meta, AttrGet(cattr, <<"camliContent">>))
                    IN  [ref |-> ParseOrZero(attr[<<"camliPath:">> \o name][1]),
                         described |-> ~IsNil(child),
                         permanode |-> isPn,
                         sym |-> AttrGet(cattr, <<"camliSymlinkTarget">>) # EmptyString,
                         dir |-> isDir(cattr),
                         content |->
                            IF AttrGet(cattr, <<"camliContent">>) = EmptyString THEN "none"
                            ELSE IF IsNil(content) THEN "nil"
                            ELSE IF content.v.CamliType = "file" THEN "file"
                            ELSE "other"]]

NoDirAnswer == DirAnswer(FALSE, NoMeta)
NoClaimsAnswer == ClaimsAnswer(FALSE, << >>)

\* What populate can leave and return on the object at index id, over every
\* answer (no answer is drawn when the children are there already), each
\* with the entries the answer defines.
DirPopulates(id) ==
    LET n == nodes[id]
    IN  {[o |-> roDirVPopulate(n, id, ans), expect |-> ResolvableNames(n.permanode, ans),
          asked |-> AskedChildren(n.permanode, ans)] :
           ans \in IF IsNil(n.children) THEN DirAnswers(n.permanode) ELSE {NoDirAnswer}}
FileLikePopulates(id) ==
    LET n == nodes[id]
    IN  {[o |-> roFileLikeDirPopulate(n, id, ans), expect |-> ExpectedVersions(ans),
          asked |-> << >>] :
           ans \in IF IsNil(n.children) THEN ClaimsAnswers ELSE {NoClaimsAnswer}}

\* The call record of a ReadDir or Lookup whose populate returned p.o.
PopulateCall(op, id, name, p) ==
    [NoCall EXCEPT !.op = op, !.node = id, !.name = name,
                   !.describes = p.o.describes, !.claims = p.o.claims,
                   !.nclaims = p.o.nclaims, !.fault = p.o.fault, !.expect = p.expect,
                   !.asked = p.asked]

\* ReadDir of roDirV and of roFileLikeDir, populate having returned p.o.
ReadDirAfter(id, p) ==
    LET call == PopulateCall("ReadDir", id, EmptyString, p)
    IN  IF p.o.panic
        THEN /\ panicked' = TRUE
             /\ last' = [call EXCEPT !.err = "panic"]
             /\ UNCHANGED nodes
        ELSE /\ Len(nodes) + Cardinality(Made(p.o)) <= MaxNodes
             /\ nodes' = Commit(nodes, id, p.o)
             /\ last' = IF p.o.err # OK THEN [call EXCEPT !.err = EIO]
                        ELSE [call EXCEPT !.ents = Dirents(nodes', nodes'[id].children)]
             /\ UNCHANGED panicked

\* Lookup of roDirV and of roFileLikeDir, populate having returned p.o.
LookupAfter(id, name, p) ==
    LET call == PopulateCall("Lookup", id, name, p)
    IN  IF p.o.panic
        THEN /\ panicked' = TRUE
             /\ last' = [call EXCEPT !.err = "panic"]
             /\ UNCHANGED nodes
        ELSE /\ Len(nodes) + Cardinality(Made(p.o)) <= MaxNodes
             /\ nodes' = Commit(nodes, id, p.o)
             /\ last' = IF p.o.err # OK THEN [call EXCEPT !.err = EIO]
                        ELSE IF ~IsNil(nodes'[id].children)
                                /\ name \in DOMAIN nodes'[id].children.v
                        THEN [call EXCEPT !.ret = nodes'[id].children.v[name]]
                        ELSE [call EXCEPT !.err = ENOENT]
             /\ UNCHANGED panicked

NodesOf(kind) == {id \in DOMAIN nodes : nodes[id].kind = kind}

\* roDirV.ReadDir
DirReadDir ==
    /\ ~panicked
    /\ \E id \in NodesOf("roDirV") : \E p \in DirPopulates(id) : ReadDirAfter(id, p)
    /\ UNCHANGED <<now, vd, lastOK>>
    /\ UNCHANGED threads

\* roDirV.Lookup
DirLookup ==
    /\ ~panicked
    /\ \E id \in NodesOf("roDirV") : \E p \in DirPopulates(id) :
         \E name \in PathNames : LookupAfter(id, name, p)
    /\ UNCHANGED <<now, vd, lastOK>>
    /\ UNCHANGED threads

\* roFileLikeDir.ReadDir
FileLikeReadDir ==
    /\ ~panicked
    /\ \E id \in NodesOf("roFileLikeDir") : \E p \in FileLikePopulates(id) :
         ReadDirAfter(id, p)
    /\ UNCHANGED <<now, vd, lastOK>>
    /\ UNCHANGED threads

\* roFileLikeDir.Lookup
FileLikeLookup ==
    /\ ~panicked
    /\ \E id \in NodesOf("roFileLikeDir") : \E p \in FileLikePopulates(id) :
         \E name \in {DateString(d) : d \in ClaimDates} : LookupAfter(id, name, p)
    /\ UNCHANGED <<now, vd, lastOK>>
    /\ UNCHANGED threads

----------------------------------------------------------------------------
(* roFileVersion *)

\* The flags of an open request, and those of its response.
RequestFlags == SUBSET {"O_WRONLY", "O_RDWR", "O_APPEND", "O_SYMLINK"}
ResponseFlags == SUBSET {"OpenDirectIO", "OpenKeepCache"}

\* isWriteFlags: the request asks to write.
isWriteFlags(flags) == flags \cap {"O_WRONLY", "O_RDWR", "O_APPEND"} # {}

\* What roFileVersion.Open returns on the version n for the request flags
\* req and the response flags res, schema.NewFileReader failing or not: the
\* error, the blob of the handle returned (the zero ref for no handle), the
\* flags of the response and the number of NewFileReader calls.
\* First, an Open that would leave the response's flags as they are.
roFileVersionOpenDirectIO(n, req, res, readerFails) ==
    IF isWriteFlags(req)
    THEN [err |-> EPERM, handle |-> ZeroRef, flags |-> res, readers |-> 0]
    ELSE IF readerFails
    THEN [err |-> EIO, handle |-> ZeroRef, flags |-> res, readers |-> 1]
    ELSE [err |-> OK, handle |-> n.content, flags |-> res, readers |-> 1]

\* Then, an Open that would not look at the request's flags.
roFileVersionOpenUnchecked(n, req, res, readerFails) ==
    IF readerFails
    THEN [err |-> EIO, handle |-> ZeroRef, flags |-> res, readers |-> 1]
    ELSE [err |-> OK, handle |-> n.content, flags |-> res \ {"OpenDirectIO"},
          readers |-> 1]

\* roFileVersion.Open, as it is.
roFileVersionOpen(n, req, res, readerFails) ==
    IF isWriteFlags(req)
    THEN [err |-> EPERM, handle |-> ZeroRef, flags |-> res, readers |-> 0]
    ELSE IF readerFails
    THEN [err |-> EIO, handle |-> ZeroRef, flags |-> res, readers |-> 1]
    ELSE [err |-> OK, handle |-> n.content, flags |-> res \ {"OpenDirectIO"},
          readers |-> 1]

\* roFileVersion.Setxattr and roFileVersion.Removexattr
roFileVersionSetxattr(n) == EPERM
roFileVersionRemovexattr(n) == EPERM

\* serverStart: the time the process started.
serverStart == StartTime

\* roFileVersion.modTime and roFileVersion.accessTime
modTime(n) == IF n.mtime # ZeroTime THEN n.mtime ELSE serverStart
accessTime(n) == IF n.atime # ZeroTime THEN n.atime ELSE modTime(n)

\* roFileVersion.Attr; the mode is its permission bits, in octal digits,
\* and its type.
roFileVersionAttr(n) ==
    [Inode |-> Sum64(n.permanode),
     Mode |-> [perm |-> <<4, 0, 0>>, type |-> IF n.symLink THEN "symlink" ELSE "file"],
     Size |-> n.size,
     Blocks |-> IF n.size > 0 THEN n.size \div 512 + 1 ELSE 0,
     Mtime |-> modTime(n), Atime |-> accessTime(n),
     Ctime |-> serverStart, Crtime |-> serverStart]

\* roDirV.Attr and roFileLikeDir.Attr
roDirAttr(n) ==
    [Inode |-> Sum64(n.permanode), Mode |-> [perm |-> <<5, 0, 0>>, type |-> "dir"]]

\* versionsDir.Attr, dirMode being 0500 as isRO is true.
versionsDirAttr == [Mode |-> [perm |-> <<5, 0, 0>>, type |-> "dir"]]

\* roFileVersion.Open
VersionOpen ==
    /\ ~panicked
    /\ \E id \in NodesOf("roFileVersion"), req \in RequestFlags,
          res \in ResponseFlags, readerFails \in BOOLEAN :
         LET r == roFileVersionOpen(nodes[id], req, res, readerFails)
         IN  last' = [NoCall EXCEPT !.op = "Open", !.node = id,
                                    !.write = isWriteFlags(req), !.err = r.err,
                                    !.ret = r.handle, !.flags = r.flags,
                                    !.readers = r.readers,
                                    !.fault = IF r.err = EIO THEN "NewFileReader"
                                              ELSE "none"]
    /\ UNCHANGED <<now, vd, nodes, lastOK, panicked>>
    /\ UNCHANGED threads

\* roFileVersion.Setxattr
VersionSetxattr ==
    /\ ~panicked
    /\ \E id \in NodesOf("roFileVersion") :
         last' = [NoCall EXCEPT !.op = "Setxattr", !.node = id,
                                !.err = roFileVersionSetxattr(nodes[id])]
    /\ UNCHANGED <<now, vd, nodes, lastOK, panicked>>
    /\ UNCHANGED threads

\* roFileVersion.Removexattr
VersionRemovexattr ==
    /\ ~panicked
    /\ \E id \in NodesOf("roFileVersion") :
         last' = [NoCall EXCEPT !.op = "Removexattr", !.node = id,
                                !.err = roFileVersionRemovexattr(nodes[id])]
    /\ UNCHANGED <<now, vd, nodes, lastOK, panicked>>
    /\ UNCHANGED threads

\* roFileVersion.Attr
VersionAttr ==
    /\ ~panicked
    /\ \E id \in NodesOf("roFileVersion") :
         last' = [NoCall EXCEPT !.op = "Attr", !.node = id,
                                !.attr = Some(roFileVersionAttr(nodes[id]))]
    /\ UNCHANGED <<now, vd, nodes, lastOK, panicked>>
    /\ UNCHANGED threads

\* roDirV.Attr and roFileLikeDir.Attr
DirAttr ==
    /\ ~panicked
    /\ \E id \in NodesOf("roDirV") \cup NodesOf("roFileLikeDir") :
         last' = [NoCall EXCEPT !.op = "Attr", !.node = id,
                                !.attr = Some(roDirAttr(nodes[id]))]
    /\ UNCHANGED <<now, vd, nodes, lastOK, panicked>>
    /\ UNCHANGED threads

----------------------------------------------------------------------------
(* The mutating calls on the three directory variants.  versionsDir gets   *)
(* Setxattr and Removexattr from the embedded noXattr; roDirV and          *)
(* roFileLikeDir define neither, nor does any of the three define Open:    *)
(* the fuse server answers for them.                                       *)

\* What a directory answers to Setxattr, to Removexattr and to an Open that
\* asks to write.
DirectoryMutation(op) == EPERM

\* Setxattr, Removexattr and Open for writing on the versionsDir (node 0), a
\* roDirV or a roFileLikeDir.
DirMutate ==
    /\ ~panicked
    /\ \E id \in {0} \cup NodesOf("roDirV") \cup NodesOf("roFileLikeDir"),
          op \in {"Setxattr", "Removexattr", "Open"} :
         last' = [NoCall EXCEPT !.op = op, !.node = id, !.write = (op = "Open"),
                                !.err = DirectoryMutation(op)]
    /\ UNCHANGED <<now, vd, nodes, lastOK, panicked>>
    /\ UNCHANGED threads

\* versionsDir.Attr
VersionsAttr ==
    /\ ~panicked
    /\ last' = [NoCall EXCEPT !.op = "Attr", !.attr = Some(versionsDirAttr)]
    /\ UNCHANGED <<now, vd, nodes, lastOK, panicked>>
    /\ UNCHANGED threads

NextRoots == Tick \/ VersionsReadDir \/ VersionsLookup \/ VersionsAttr \/ DirMutate

SpecRoots == Init /\ [][NextRoots]_vars

\* The tree below one root: the state after the first Lookup("photos") of a
\* versionsDir whose refresh found the root photos on the permanode 4.
InitTree ==
    /\ now = StartTime
    /\ vd = [lastQuery |-> StartTime,
             m |-> [name \in {<<"photos">>} |-> 4],
             children |-> Some([name \in {<<"photos">>} |-> 1])]
    /\ nodes = <<newRODirV(4, <<"photos">>)>>
    /\ last = [NoCall EXCEPT !.op = "Lookup", !.name = <<"photos">>, !.ret = 1,
                             !.searches = 2, !.describes = 1]
    /\ lastOK = StartTime
    /\ panicked = FALSE
    /\ threads = NoThreads

NextTree ==
    \/ DirReadDir \/ DirLookup \/ DirAttr
    \/ FileLikeReadDir \/ FileLikeLookup
    \/ VersionOpen \/ VersionAttr \/ VersionSetxattr \/ VersionRemovexattr
    \/ DirMutate

SpecTree == InitTree /\ [][NextTree]_vars

\* The tree below one root together with the versionsDir above it, inside
\* the refresh period of the versionsDir: its ReadDir and Lookup find
\* lastQuery fresh.
NextDirs == NextTree \/ VersionsReadDir \/ VersionsLookup

SpecDirs == InitTree /\ [][NextDirs]_vars

----------------------------------------------------------------------------
(* The handlers of the versionsDir, step by step.  ReadDir and Lookup hold   *)
(* n.mu from their first statement to their return.  condRefresh starts the *)
(* two searches with grp.Go, one after the other, and waits for both in     *)
(* grp.Err; the client answers each when it likes.                          *)

\* A search of a syncutil.Group: not started, running, or done with its
\* error and its result.
Unstarted == [st |-> "unstarted", err |-> FALSE, res |-> << >>]
Running == [st |-> "running", err |-> FALSE, res |-> << >>]
Returned(err, res) == [st |-> "done", err |-> err, res |-> res]

\* The thread t holds the mutex of the node k (0: the versionsDir).
Holds(t, k) ==
    /\ threads[t].pc \in {"go1", "go2", "join", "describe", "finish", "query",
                          "attr", "modTime", "accessTime"}
    /\ threads[t].node = k
Locked(k) == \E t \in Threads : Holds(t, k)

\* The name that concurrent callers look up.
LookupNames == {<<"photos">>}

\* A ReadDir or a Lookup(name) of the versionsDir arrives: the thread is
\* about to take n.mu.
VdCall(t) ==
    /\ ~panicked
    /\ threads[t] = Idle
    /\ \E op \in {"ReadDir", "Lookup"}, name \in LookupNames :
         threads' = [threads EXCEPT ![t] =
                       [pc |-> "lock", op |-> op, node |-> 0,
                        name |-> IF op = "Lookup" THEN name ELSE EmptyString,
                        root |-> Unstarted, imp |-> Unstarted,
                        searches |-> 0, describes |-> 0]]
    /\ UNCHANGED <<now, vd, nodes, last, lastOK, panicked>>

\* n.mu.Lock(), and the first test of condRefresh.
VdLock(t) ==
    /\ ~panicked
    /\ threads[t].pc = "lock" /\ threads[t].node = 0
    /\ ~Locked(0)
    /\ threads' = [threads EXCEPT ![t].pc = IF Fresh(vd.lastQuery, now)
                                             THEN "finish" ELSE "go1"]
    /\ UNCHANGED <<now, vd, nodes, last, lastOK, panicked>>

\* grp.Go of the camliRoot search.
VdGoRoot(t) ==
    /\ ~panicked
    /\ threads[t].pc = "go1"
    /\ threads' = [threads EXCEPT ![t].pc = "go2", ![t].root = Running,
                                   ![t].searches = @ + 1]
    /\ UNCHANGED <<now, vd, nodes, last, lastOK, panicked>>

\* grp.Go of the camliImportRoot search.
VdGoImp(t) ==
    /\ ~panicked
    /\ threads[t].pc = "go2"
    /\ threads' = [threads EXCEPT ![t].pc = "join", ![t].imp = Running,
                                   ![t].searches = @ + 1]
    /\ UNCHANGED <<now, vd, nodes, last, lastOK, panicked>>

\* GetPermanodesWithAttr returns in the goroutine of a search.
VdSearchReturns(t) ==
    /\ ~panicked
    /\ threads[t].pc \in {"go2", "join"}
    /\ \/ /\ threads[t].root = Running
          /\ \E err \in BOOLEAN, res \in ListsOf(RootPermanodes) :
               /\ err => res = << >>
               /\ threads' = [threads EXCEPT ![t].root = Returned(err, res)]
       \/ /\ threads[t].imp = Running
          /\ \E err \in BOOLEAN, res \in ListsOf(ImportPermanodes) :
               /\ err => res = << >>
               /\ threads' = [threads EXCEPT ![t].imp = Returned(err, res)]
    /\ UNCHANGED <<now, vd, nodes, last, lastOK, panicked>>

\* grp.Err returns when every goroutine started has returned.
Joined(th) == th.root.st # "running" /\ th.imp.st # "running"

\* A test of grp.Err() that would see the error of the first search only.
JoinErrorOfRoot(th) == th.root.err

\* grp.Err() != nil: one of the searches returned an error.
JoinError(th) == th.root.err \/ th.imp.err

\* The call record of a thread's ReadDir or Lookup of the versionsDir.
VdCallRecord(th, r) ==
    [NoCall EXCEPT !.op = th.op, !.name = th.name, !.err = r.err,
                   !.searches = th.searches, !.describes = r.describes,
                   !.fault = RefreshFault(r)]

\* grp.Err() returns, and condRefresh goes on to its return when a search
\* failed or when nothing was found, else to Describe.
VdJoin(t) ==
    LET th == threads[t]
        failed == condRefresh(vd, now, RefreshInput(th.root.err, th.imp.err,
                                                    << >>, << >>, FALSE, NoMeta))
        reset == condRefresh(vd, now, RefreshInput(FALSE, FALSE, th.root.res,
                                                   th.imp.res, TRUE, NoMeta))
    IN  /\ ~panicked
        /\ th.pc = "join"
        /\ Joined(th)
        /\ IF JoinError(th)
           THEN /\ threads' = [threads EXCEPT ![t] = Idle]
                /\ last' = VdCallRecord(th, failed)
                /\ vd' = failed.vd
           ELSE /\ threads' = [threads EXCEPT ![t].pc =
                                 IF Len(th.root.res \o th.imp.res) = 0
                                 THEN "finish" ELSE "describe"]
                /\ vd' = reset.vd
                /\ UNCHANGED last
        /\ lastOK' = IF ~JoinError(th) /\ Len(th.root.res \o th.imp.res) = 0
                     THEN now ELSE lastOK
        /\ UNCHANGED <<now, nodes, panicked>>

\* Describe returns, and condRefresh runs to its return.
VdDescribe(t) ==
    LET th == threads[t]
    IN  /\ ~panicked
        /\ th.pc = "describe"
        /\ \E in \in {RefreshInput(FALSE, FALSE, th.root.res, th.imp.res, TRUE, NoMeta)}
                     \cup {RefreshInput(FALSE, FALSE, th.root.res, th.imp.res, FALSE, meta) :
                             meta \in RefreshMetas(th.root.res, th.imp.res)} :
             LET r == condRefresh(vd, now, in)
             IN  /\ vd' = r.vd
                 /\ lastOK' = RefreshedAt(r, now, lastOK)
                 /\ IF r.err # OK
                    THEN /\ threads' = [threads EXCEPT ![t] = Idle]
                         /\ last' = VdCallRecord(th, r)
                    ELSE /\ threads' = [threads EXCEPT ![t].pc = "finish",
                                                        ![t].describes = 1]
                         /\ UNCHANGED last
        /\ UNCHANGED <<now, nodes, panicked>>

\* condRefresh has returned nil: the rest of ReadDir or of Lookup, and the
\* deferred n.mu.Unlock().
VdFinish(t) ==
    LET th == threads[t]
        call == [NoCall EXCEPT !.op = th.op, !.name = th.name,
                               !.searches = th.searches, !.describes = th.describes]
        br == IF th.name \in DOMAIN vd.m THEN vd.m[th.name] ELSE ZeroRef
    IN  /\ ~panicked
        /\ th.pc = "finish" /\ th.node = 0
        /\ IF th.op = "ReadDir"
           THEN /\ last' = [call EXCEPT !.ents = {Dirent(name, 0) : name \in DOMAIN vd.m}]
                /\ UNCHANGED <<vd, nodes, panicked>>
           ELSE IF ~Valid(br)
           THEN /\ last' = [call EXCEPT !.err = ENOENT]
                /\ UNCHANGED <<vd, nodes, panicked>>
           ELSE IF IsNil(vd.children)
           THEN /\ last' = [call EXCEPT !.err = "panic"]
                /\ panicked' = TRUE
                /\ UNCHANGED <<vd, nodes>>
           ELSE IF th.name \in DOMAIN vd.children.v
           THEN /\ last' = [call EXCEPT !.ret = vd.children.v[th.name]]
                /\ UNCHANGED <<vd, nodes, panicked>>
           ELSE /\ Len(nodes) < MaxNodes
                /\ nodes' = Append(nodes, newRODirV(br, th.name))
                /\ vd' = [vd EXCEPT !.children =
                             Some(MapPut(vd.children.v, th.name, Len(nodes) + 1))]
                /\ last' = [call EXCEPT !.ret = Len(nodes) + 1]
                /\ UNCHANGED panicked
        /\ threads' = [threads EXCEPT ![t] = Idle]
        /\ UNCHANGED <<now, lastOK>>

\* The versionsDir under concurrent requests.
NextVd ==
    \/ Tick
    \/ \E t \in Threads : VdCall(t)
    \/ \E t \in Threads : VdLock(t)
    \/ \E t \in Threads : VdGoRoot(t)
    \/ \E t \in Threads : VdGoImp(t)
    \/ \E t \in Threads : VdSearchReturns(t)
    \/ \E t \in Threads : VdJoin(t)
    \/ \E t \in Threads : VdDescribe(t)
    \/ \E t \in Threads : VdFinish(t)

SpecVd == Init /\ [][NextVd]_vars

----------------------------------------------------------------------------
(* The ReadDir and Lookup of roDirV and of roFileLikeDir, step by step.      *)
(* populate holds n.mu from its first statement to its return, the client's *)
(* answer included; the handler then takes n.mu again to read n.children.   *)

\* What the body of populate, past the test of n.children, can leave and
\* return on the object at index id, over every answer of the client.
QueryOutcomes(id) ==
    LET n == [nodes[id] EXCEPT !.children = Nil]
    IN  IF n.kind = "roDirV"
        THEN {roDirVPopulate(n, id, ans) : ans \in DirAnswers(n.permanode)}
        ELSE {roFileLikeDirPopulate(n, id, ans) : ans \in ClaimsAnswers}

\* The call record of a thread: its call, and the Describe and GetClaims
\* calls that its populate made.
PopCallRecord(th) ==
    [NoCall EXCEPT !.op = th.op, !.node = th.node, !.name = th.name,
                   !.describes = th.describes, !.claims = th.claims]

\* The names that concurrent callers look up in a directory.
PopLookupNames(kind) == IF kind = "roDirV" THEN {<<"a">>} ELSE {DateString(1)}

\* A ReadDir or a Lookup(name) of a directory arrives: the thread is about
\* to take n.mu in populate.
PopCall(t) ==
    /\ ~panicked
    /\ threads[t] = Idle
    /\ \E id \in NodesOf("roDirV") \cup NodesOf("roFileLikeDir") :
         \E op \in {"ReadDir", "Lookup"} :
           \E name \in PopLookupNames(nodes[id].kind) :
              threads' = [threads EXCEPT ![t] =
                            [pc |-> "plock", op |-> op, node |-> id,
                             name |-> IF op = "Lookup" THEN name ELSE EmptyString,
                             describes |-> 0, claims |-> 0]]
    /\ UNCHANGED <<now, vd, nodes, last, lastOK, panicked>>

\* n.mu.Lock() in populate, and its test of n.children: populated, it
\* returns nil and unlocks; else it calls the client, n.mu held.
PopLock(t) ==
    LET th == threads[t]
    IN  /\ ~panicked
        /\ th.pc = "plock"
        /\ ~Locked(th.node)
        /\ threads' = [threads EXCEPT ![t] =
                         IF IsNil(nodes[th.node].children)
                         THEN [th EXCEPT !.pc = "query"]
                         ELSE [th EXCEPT !.pc = "rlock"]]
        /\ UNCHANGED <<now, vd, nodes, last, lastOK, panicked>>

\* The client answers; populate builds the children, unlocks and returns.
\* An error of populate ends the handler with EIO.
PopQuery(t) ==
    LET th == threads[t]
    IN  /\ ~panicked
        /\ th.pc = "query" /\ th.node # 0
        /\ \E o \in QueryOutcomes(th.node) :
             LET asked == [th EXCEPT !.describes = o.describes, !.claims = o.claims]
                 call == PopCallRecord(asked)
             IN  IF o.panic
                 THEN /\ panicked' = TRUE
                      /\ last' = [call EXCEPT !.err = "panic"]
                      /\ UNCHANGED <<nodes, threads>>
                 ELSE /\ Len(nodes) + Cardinality(Made(o)) <= MaxNodes
                      /\ nodes' = Commit(nodes, th.node, o)
                      /\ IF o.err # OK
                         THEN /\ last' = [call EXCEPT !.err = EIO]
                              /\ threads' = [threads EXCEPT ![t] = Idle]
                         ELSE /\ threads' = [threads EXCEPT ![t] =
                                               [asked EXCEPT !.pc = "rlock"]]
                              /\ UNCHANGED last
                      /\ UNCHANGED panicked
        /\ UNCHANGED <<now, vd, lastOK>>

\* The handler takes n.mu, reads n.children, unlocks and returns.
PopRead(t) ==
    LET th == threads[t]
        children == nodes[th.node].children
        call == PopCallRecord(th)
    IN  /\ ~panicked
        /\ th.pc = "rlock"
        /\ ~Locked(th.node)
        /\ last' = IF th.op = "ReadDir"
                   THEN [call EXCEPT !.ents = Dirents(nodes, children)]
                   ELSE IF ~IsNil(children) /\ th.name \in DOMAIN children.v
                   THEN [call EXCEPT !.ret = children.v[th.name]]
                   ELSE [call EXCEPT !.err = ENOENT]
        /\ threads' = [threads EXCEPT ![t] = Idle]
        /\ UNCHANGED <<now, vd, nodes, lastOK, panicked>>

\* The directories below one root under concurrent requests.
NextPop ==
    \/ \E t \in Threads : PopCall(t)
    \/ \E t \in Threads : PopLock(t)
    \/ \E t \in Threads : PopQuery(t)
    \/ \E t \in Threads : PopRead(t)

SpecPop == InitTree /\ [][NextPop]_vars

----------------------------------------------------------------------------
(* roFileVersion.Attr, step by step.  It takes n.mu three times: in its own *)
(* body, in modTime and in accessTime, which, n.atime being zero, unlocks   *)
(* and calls modTime again.  The thread's field after says where the       *)
(* modTime in progress returns to.                                          *)

\* Attr of a roFileVersion arrives: the thread is about to take n.mu.
AttrCall(t) ==
    /\ ~panicked
    /\ threads[t] = Idle
    /\ \E id \in NodesOf("roFileVersion") :
         threads' = [threads EXCEPT ![t] =
                       [pc |-> "attr_lock", op |-> "Attr", node |-> id,
                        name |-> EmptyString, describes |-> 0, claims |-> 0,
                        after |-> "none"]]
    /\ UNCHANGED <<now, vd, nodes, last, lastOK, panicked>>

\* n.mu.Lock() in Attr.
AttrLock(t) ==
    /\ ~panicked
    /\ threads[t].pc = "attr_lock"
    /\ ~Locked(threads[t].node)
    /\ threads' = [threads EXCEPT ![t].pc = "attr"]
    /\ UNCHANGED <<now, vd, nodes, last, lastOK, panicked>>

\* Attr reads size, permanode and symLink and unlocks; building the result
\* it calls n.modTime() first.
AttrUnlock(t) ==
    /\ ~panicked
    /\ threads[t].pc = "attr"
    /\ threads' = [threads EXCEPT ![t].pc = "modTime_lock", ![t].after = "accessTime_lock"]
    /\ UNCHANGED <<now, vd, nodes, last, lastOK, panicked>>

\* n.mu.Lock() in modTime.
modTimeLock(t) ==
    /\ ~panicked
    /\ threads[t].pc = "modTime_lock"
    /\ ~Locked(threads[t].node)
    /\ threads' = [threads EXCEPT ![t].pc = "modTime"]
    /\ UNCHANGED <<now, vd, nodes, last, lastOK, panicked>>

\* modTime returns, its deferred Unlock done, to where it was called from.
modTimeReturn(t) ==
    /\ ~panicked
    /\ threads[t].pc = "modTime"
    /\ threads' = [threads EXCEPT ![t].pc = threads[t].after, ![t].after = "none"]
    /\ UNCHANGED <<now, vd, nodes, last, lastOK, panicked>>

\* n.mu.Lock() in accessTime.
accessTimeLock(t) ==
    /\ ~panicked
    /\ threads[t].pc = "accessTime_lock"
    /\ ~Locked(threads[t].node)
    /\ threads' = [threads EXCEPT ![t].pc = "accessTime"]
    /\ UNCHANGED <<now, vd, nodes, last, lastOK, panicked>>

\* accessTime tests n.atime: set, it returns it, its deferred Unlock done;
\* zero, it unlocks and calls modTime.
accessTimeTest(t) ==
    /\ ~panicked
    /\ threads[t].pc = "accessTime"
    /\ threads' = IF nodes[threads[t].node].atime # ZeroTime
                  THEN [threads EXCEPT ![t].pc = "return"]
                  ELSE [threads EXCEPT ![t].pc = "modTime_lock", ![t].after = "return"]
    /\ UNCHANGED <<now, vd, nodes, last, lastOK, panicked>>

\* Attr returns the fuse.Attr.
AttrReturn(t) ==
    /\ ~panicked
    /\ threads[t].pc = "return"
    /\ last' = [NoCall EXCEPT !.op = "Attr", !.node = threads[t].node,
                              !.attr = Some(roFileVersionAttr(nodes[threads[t].node]))]
    /\ threads' = [threads EXCEPT ![t] = Idle]
    /\ UNCHANGED <<now, vd, nodes, lastOK, panicked>>

\* The root directory of InitTree after a populate that found one child.
OneFileRoots ==
    LET root == newRODirV(4, <<"photos">>)
        outcomes == {roDirVPopulate(root, 1, ans) : ans \in DirAnswers(4)}
    IN  {Commit(<<root>>, 1, o) :
           o \in {x \in outcomes : ~x.panic /\ x.err = OK /\ Cardinality(Made(x)) = 1}}

\* The tree below one root whose ReadDir found one file, not a symlink.
InitFile ==
    /\ now = StartTime
    /\ vd = [lastQuery |-> StartTime,
             m |-> [name \in {<<"photos">>} |-> 4],
             children |-> Some([name \in {<<"photos">>} |-> 1])]
    /\ nodes \in {h \in OneFileRoots : h[2].kind = "roFileLikeDir" /\ ~h[2].symLink}
    /\ last = [NoCall EXCEPT !.op = "ReadDir", !.node = 1, !.describes = 1,
                             !.ents = Dirents(nodes, nodes[1].children)]
    /\ lastOK = StartTime
    /\ panicked = FALSE
    /\ threads = NoThreads

\* The directories and the file versions below one root under concurrent
\* requests.
NextLocks ==
    \/ \E t \in Threads : PopCall(t)
    \/ \E t \in Threads : PopLock(t)
    \/ \E t \in Threads : PopQuery(t)
    \/ \E t \in Threads : PopRead(t)
    \/ \E t \in Threads : AttrCall(t)
    \/ \E t \in Threads : AttrLock(t)
    \/ \E t \in Threads : AttrUnlock(t)
    \/ \E t \in Threads : modTimeLock(t)
    \/ \E t \in Threads : modTimeReturn(t)
    \/ \E t \in Threads : accessTimeLock(t)
    \/ \E t \in Threads : accessTimeTest(t)
    \/ \E t \in Threads : AttrReturn(t)

\* The steps of the thread t inside a call: at most one is enabled at a
\* time, the one at its pc.
Runs(t) ==
    \/ PopLock(t) \/ PopQuery(t) \/ PopRead(t)
    \/ AttrLock(t) \/ AttrUnlock(t) \/ modTimeLock(t) \/ modTimeReturn(t)
    \/ accessTimeLock(t) \/ accessTimeTest(t) \/ AttrReturn(t)

\* A thread that can run does run, the client answers every call made to
\* it, and a thread that a mutex is free for again and again gets it.  (A
\* step that takes no mutex stays enabled until it is taken, so that strong
\* fairness asks of it what weak fairness does.)
FairLocks == \A t \in Threads : SF_vars(Runs(t))

SpecLocks == InitFile /\ [][NextLocks]_vars /\ FairLocks

----------------------------------------------------------------------------
(* Properties *)

KindOf(id) == IF id = 0 THEN "versionsDir" ELSE nodes[id].kind
IsListing(call) == call.op \in {"ReadDir", "Lookup"}
EntryNamesOf(ents) == {e.Name : e \in ents}

\* The last call was a ReadDir or Lookup on a node of this kind.
Listed(kind) ==
    /\ IsListing(last)
    /\ last.node \in {0} \cup DOMAIN nodes
    /\ KindOf(last.node) = kind

\* The memoized children of a versionsDir, a nil map holding none.
Memo(v) == IF IsNil(v.children) THEN EmptyMap ELSE v.children.v

\* C1: when the content of one claim fails to resolve (its value does not
\* parse, Describe fails, or the value is missing from what Describe
\* returns), the ReadDir or Lookup of the roFileLikeDir that populated
\* returns EIO and the node holds no entry of any other claim, so no later
\* ReadDir or Lookup can list one.
C1_AllOrNothing ==
    (Listed("roFileLikeDir") /\ last.fault \in {"parse", "Describe", "notDescribed"})
    => /\ last.err = EIO
       /\ Memo(nodes[last.node]) = EmptyMap

\* C2: when Describe fails on a roDirV that is not populated, ReadDir returns
\* EIO, Lookup of any name returns EIO, and the children map stays nil.
C2_DescribeFailureIsEIO ==
    (Listed("roDirV") /\ last.fault = "Describe")
    => /\ last.err = EIO
       /\ IsNil(nodes[last.node].children)

\* C3: failures are not cached: the ReadDir or Lookup that follows, on the
\* same node, one that returned EIO queries the client again, and when the
\* client then answers without fault a ReadDir lists the entries that the
\* answer defines.
C3_FailuresNotCached ==
    [][(/\ IsListing(last) /\ last.err = EIO
        /\ now' = now
        /\ IsListing(last') /\ last'.node = last.node)
       => /\ last'.searches + last'.describes + last'.claims > 0
          /\ (last'.fault = "none" /\ last'.op = "ReadDir" /\ last'.node # 0
              /\ last'.err # "panic")
             => /\ last'.err = OK
                /\ EntryNamesOf(last'.ents) = {IF KindOf(last.node) = "roDirV"
                                               THEN x ELSE x.Name : x \in last'.expect}
      ]_vars

\* A step is a ReadDir or Lookup of the versionsDir.
VersionsListing == now' = now /\ IsListing(last') /\ last'.node = 0

\* A step is a ReadDir or Lookup of the versionsDir whose condRefresh queried
\* the client and returned nil.
VersionsRefreshed == VersionsListing /\ last'.searches = 2 /\ last'.fault = "none"

\* C4: for every result of the client, a ReadDir or Lookup of the
\* versionsDir made less than versionsRefreshTime after a refresh that
\* returned nil issues no GetPermanodesWithAttr, and one made later issues
\* exactly two.
C4_OnePairPerWindow ==
    [][VersionsListing
       => IF now - lastOK < versionsRefreshTime
          THEN last'.searches = 0
          ELSE last'.searches = 2
      ]_vars

\* C5: a memoized child whose name, a root's or an import root's, is still
\* listed after a refresh that succeeded stays memoized: Lookup returns the
\* object it returned before.
C5_ChildrenMemoizedAcrossRefresh ==
    [][VersionsRefreshed
       => \A name \in DOMAIN Memo(vd) \cap DOMAIN vd'.m :
             /\ name \in DOMAIN Memo(vd')
             /\ Memo(vd')[name] = Memo(vd)[name]
      ]_vars

\* C6: a name listed after one refresh and not found by the next refresh
\* that succeeds, even one that finds no root at all, is not listed by
\* ReadDir, is ENOENT for Lookup and is no longer held in the children.
C6_AbsentRootEvicted ==
    [][VersionsRefreshed
       => \A name \in DOMAIN vd.m \ DOMAIN vd'.m :
             /\ name \notin DOMAIN Memo(vd')
             /\ name \notin EntryNamesOf(last'.ents)
             /\ (last'.op = "Lookup" /\ last'.name = name) => last'.err = ENOENT
      ]_vars

\* C7, as stated: a condRefresh that returns EIO, from a search or from
\* Describe, leaves m, the memoized children and lastQuery as they were.
C7_FailedRefreshTouchesNothing ==
    [][(VersionsListing /\ last'.err = EIO)
       => /\ vd'.m = vd.m
          /\ Memo(vd') = Memo(vd)
          /\ vd'.lastQuery = vd.lastQuery
      ]_vars

\* C7, amended: a condRefresh that returns EIO from a search leaves the node
\* as it was; one that returns EIO from Describe leaves lastQuery and the
\* memoized children as they were, and m empty.
C7_FailedRefreshKeepsCache ==
    [][(VersionsListing /\ last'.err = EIO)
       => /\ Memo(vd') = Memo(vd)
          /\ vd'.lastQuery = vd.lastQuery
          /\ lastOK' = lastOK
          /\ nodes' = nodes
          /\ IF last'.fault = "GetPermanodesWithAttr" THEN vd' = vd
             ELSE last'.fault = "Describe" /\ vd'.m = EmptyMap
      ]_vars

\* C7's case: after a refresh that succeeded and a Lookup that memoized a
\* child, a later refresh failed in Describe.
C7_Witness ==
    /\ IsListing(last) /\ last.node = 0
    /\ last.err = EIO /\ last.fault = "Describe"
    /\ vd.lastQuery # ZeroTime
    /\ Memo(vd) # EmptyMap
    /\ vd.m = EmptyMap

\* The last call was a mutation: Setxattr, Removexattr or an Open that asks
\* to write.
Mutation(call) == call.op \in {"Setxattr", "Removexattr"} \/ (call.op = "Open" /\ call.write)

C9_DirentsHashChildren ==
    (Listed("roDirV") /\ last.op = "ReadDir" /\ last.describes = 1
        /\ last.fault = "none" /\ last.err = OK)
    => /\ EntryNamesOf(last.ents) = last.expect
       /\ Cardinality(last.ents) = Cardinality(last.expect)
       /\ \A e \in last.ents :
             e.Inode = Sum64(nodes[Memo(nodes[last.node])[e.Name]].permanode)

\* C10: the ReadDir of a roFileLikeDir whose n claims all resolve lists n
\* entries, one for each claim and named by its date, and the child of each
\* name is a roFileVersion with the content and the size of the claim's blob.
C10_OneVersionPerClaim ==
    (Listed("roFileLikeDir") /\ last.op = "ReadDir" /\ last.claims = 1
        /\ last.fault = "none" /\ last.err = OK
        /\ Cardinality(last.expect) = last.nclaims)
    => /\ Cardinality(last.ents) = last.nclaims
       /\ EntryNamesOf(last.ents) = {x.Name : x \in last.expect}
       /\ \A x \in last.expect :
             /\ x.Name \in DOMAIN Memo(nodes[last.node])
             /\ LET child == nodes[Memo(nodes[last.node])[x.Name]]
                IN  /\ child.kind = "roFileVersion"
                    /\ child.content = x.content
                    /\ roFileVersionAttr(child).Size = x.size

\* C12: once the children of a roDirV or of a roFileLikeDir are not nil, no
\* step changes them or the objects they name, and a ReadDir or Lookup of
\* the node calls neither Describe nor GetClaims, lists the names of the
\* children and returns for a name the object the children hold.
C12_PopulatedIsAuthoritative ==
    [][\A id \in DOMAIN nodes :
         (nodes[id].kind \in {"roDirV", "roFileLikeDir"} /\ ~IsNil(nodes[id].children))
         => /\ nodes'[id].children = nodes[id].children
            /\ \A name \in DOMAIN nodes[id].children.v :
                  LET c == nodes[id].children.v[name]
                  IN  /\ nodes'[c].kind = nodes[c].kind
                      /\ nodes'[c].permanode = nodes[c].permanode
                      /\ nodes'[c].name = name
            /\ (IsListing(last') /\ last'.node = id)
               => /\ last'.describes = 0 /\ last'.claims = 0
                  /\ last'.err \in {OK, ENOENT}
                  /\ last'.op = "ReadDir"
                     => EntryNamesOf(last'.ents) = DOMAIN nodes[id].children.v
                  /\ last'.op = "Lookup"
                     => IF last'.name \in DOMAIN nodes[id].children.v
                        THEN last'.err = OK
                             /\ last'.ret = nodes[id].children.v[last'.name]
                        ELSE last'.err = ENOENT
      ]_vars

\* C12's case: a Lookup on a populated roDirV asked the client nothing and
\* returned a child made by the populate of an earlier call.
C12_Witness ==
    /\ Listed("roDirV") /\ last.op = "Lookup"
    /\ last.describes = 0
    /\ last.ret # 0

\* What an answer says of a child: it is skipped (not described, or a
\* permanode that is no symlink and no directory and whose content is absent,
\* not described or no file), or it resolves.
Skipped(sh) ==
    \/ ~sh.described
    \/ sh.permanode /\ ~sh.sym /\ ~sh.dir /\ sh.content \in {"none", "nil", "other"}
Resolves(sh) == sh.permanode /\ (sh.sym \/ sh.dir \/ sh.content = "file")

\* The last call was a ReadDir or Lookup of a roDirV whose populate got an
\* answer describing the directory, each child of which is skipped or
\* resolves.
PopulatedFromAnswer ==
    /\ Listed("roDirV")
    /\ last.describes = 1 /\ last.fault = "none"
    /\ DOMAIN last.asked # {}
    /\ \A name \in DOMAIN last.asked :
          Skipped(last.asked[name]) \/ Resolves(last.asked[name])

\* C13: when the Describe of a roDirV succeeds and a camliPath child is
\* skipped, the call succeeds, ReadDir lists the names that resolve and
\* none that is skipped, and Lookup returns a node for a name that resolves
\* and ENOENT for one that is skipped.
C13_SkipAndContinue ==
    (PopulatedFromAnswer /\ \E name \in DOMAIN last.asked : Skipped(last.asked[name]))
    => /\ last.op = "ReadDir"
          => /\ last.err = OK
             /\ EntryNamesOf(last.ents)
                  = {name \in DOMAIN last.asked : Resolves(last.asked[name])}
       /\ last.op = "Lookup"
          => IF last.name \in DOMAIN last.asked /\ Resolves(last.asked[last.name])
             THEN last.err = OK /\ last.ret # 0
                  /\ nodes[last.ret].name = last.name
             ELSE last.err = ENOENT
       /\ DOMAIN Memo(nodes[last.node])
            = {name \in DOMAIN last.asked : Resolves(last.asked[name])}

\* C13's case: a ReadDir whose answer had a skipped child and a sibling
\* that resolves listed the sibling.
C13_Witness ==
    /\ PopulatedFromAnswer /\ last.op = "ReadDir"
    /\ \E name \in DOMAIN last.asked : Skipped(last.asked[name])
    /\ \E name \in DOMAIN last.asked :
          Resolves(last.asked[name]) /\ name \in EntryNamesOf(last.ents)

\* C14: whatever the client answers, no ReadDir, Lookup, Open or Attr
\* dereferences nil: every call returns a result or an error value.
C14_NoPanic == ~panicked /\ last.err # "panic"

\* A step is an Open of a roFileVersion.
VersionOpened == last'.op = "Open" /\ last'.node \in NodesOf("roFileVersion")

\* C15: an Open of a roFileVersion that asks to write returns EPERM and
\* makes no reader; any other Open makes one reader, on the content of the
\* node: it returns EIO and no handle when the reader cannot be made, and
\* else a handle on the content, the response's OpenDirectIO flag cleared.
\* No Open changes a node.
C15_OpenReadsOrRefuses ==
    [][VersionOpened
       => /\ nodes' = nodes /\ vd' = vd /\ panicked' = panicked
          /\ IF last'.write
             THEN last'.err = EPERM /\ last'.readers = 0 /\ last'.ret = ZeroRef
             ELSE /\ last'.readers = 1
                  /\ IF last'.fault = "NewFileReader"
                     THEN last'.err = EIO /\ last'.ret = ZeroRef
                     ELSE /\ last'.err = OK
                          /\ last'.ret = nodes[last'.node].content
                          /\ "OpenDirectIO" \notin last'.flags
      ]_vars

\* C15's case: an Open that did not ask to write returned a handle on the
\* content of its node, the response keeping its other flag.
C15_Witness ==
    /\ last.op = "Open" /\ last.node \in NodesOf("roFileVersion")
    /\ ~last.write /\ last.err = OK
    /\ last.ret = nodes[last.node].content /\ last.ret # ZeroRef
    /\ last.flags = {"OpenKeepCache"}

\* The variant a child resolves to: a symlink before a directory, a
\* directory before a file, and nothing else.
VariantOf(sh) ==
    IF ~sh.permanode THEN "none"
    ELSE IF sh.sym THEN "symlink"
    ELSE IF sh.dir THEN "roDirV"
    ELSE IF sh.content = "file" THEN "roFileLikeDir"
    ELSE "none"

\* C17: the children a populate of a roDirV makes follow the priority
\* symlink, directory, file: a child with a symlink target is a roFileLikeDir
\* flagged as a symlink whatever else it has, else a directory is a roDirV
\* whatever its content, else a child whose content is described as a file
\* is a roFileLikeDir, and any other child has no entry.  Each child has the
\* directory as its parent, the camliPath name as its name and the
\* permanode the attribute points to.
C17_ChildVariantPriority ==
    PopulatedFromAnswer
    => \A name \in DOMAIN last.asked :
          LET sh == last.asked[name]
              children == Memo(nodes[last.node])
          IN  IF VariantOf(sh) = "none" THEN name \notin DOMAIN children
              ELSE /\ name \in DOMAIN children
                   /\ LET child == nodes[children[name]]
                      IN  /\ child.parent = last.node
                          /\ child.name = name
                          /\ child.permanode = sh.ref
                          /\ child.kind = IF VariantOf(sh) = "symlink"
                                          THEN "roFileLikeDir" ELSE VariantOf(sh)
                          /\ child.kind = "roFileLikeDir"
                             => child.symLink = (VariantOf(sh) = "symlink")

\* C17's case: a populate made a symlink of a child that has a symlink
\* target and is a directory with a content as well.
C17_Witness ==
    /\ PopulatedFromAnswer
    /\ \E name \in DOMAIN last.asked :
          /\ last.asked[name].sym /\ last.asked[name].dir
          /\ last.asked[name].content = "file"
          /\ name \in DOMAIN Memo(nodes[last.node])
          /\ nodes[Memo(nodes[last.node])[name]].symLink

\* The instant of the claim a roFileVersion was made for: its name is the
\* claim's date, rendered.
ClaimDateOf(n) == CHOOSE date \in ClaimDates : DateString(date) = n.name

\* C18: Attr of a roFileVersion made from a claim dated t reports the
\* modification time t, and an access time equal to it as none is set; its
\* mode has no write bit and its size is the size stored.
C18_AttrReportsClaimDate ==
    (last.op = "Attr" /\ last.node \in NodesOf("roFileVersion"))
    => LET n == nodes[last.node]
           attr == last.attr.v
       IN  /\ attr.Mtime = ClaimDateOf(n)
           /\ attr.Atime = attr.Mtime
           /\ \A i \in DOMAIN attr.Mode.perm : attr.Mode.perm[i] \in {0, 1, 4, 5}
           /\ attr.Size = n.size

\* C19: the node a Lookup of the versionsDir returns for a name is a roDirV
\* on the permanode that the name maps to since the last refresh.
C19_LookupFollowsRefresh ==
    (last.op = "Lookup" /\ last.node = 0 /\ last.err = OK)
    => /\ last.ret \in DOMAIN nodes
       /\ last.name \in DOMAIN vd.m
       /\ nodes[last.ret].kind = "roDirV"
       /\ nodes[last.ret].permanode = vd.m[last.name]

\* The calls a handler made to the client.
CallsOf(call) == call.searches + call.describes + call.claims

\* C20: on each directory, a Lookup that follows a ReadDir and calls the
\* client for nothing returns a node for a name the ReadDir listed and
\* ENOENT for any other name; a ReadDir that follows a Lookup and calls the
\* client for nothing lists the name exactly when the Lookup returned a node
\* for it, the Lookup having returned ENOENT otherwise; and a listing holds
\* no name twice.
C20_ReadDirAgreesWithLookup ==
    [][/\ (/\ last.op = "ReadDir" /\ last.err = OK
            /\ last'.op = "Lookup" /\ last'.node = last.node
            /\ CallsOf(last') = 0)
           => IF last'.name \in EntryNamesOf(last.ents)
              THEN last'.err = OK /\ last'.ret # 0
              ELSE last'.err = ENOENT /\ last'.ret = 0
       /\ (/\ last.op = "Lookup" /\ last.err \in {OK, ENOENT}
            /\ last'.op = "ReadDir" /\ last'.node = last.node
            /\ CallsOf(last') = 0)
           => /\ last'.err = OK
              /\ (last.err = OK /\ last.ret # 0)
                   <=> last.name \in EntryNamesOf(last'.ents)
       /\ last'.op = "ReadDir"
           => Cardinality(last'.ents) = Cardinality(EntryNamesOf(last'.ents))
      ]_vars

\* C20's case: on a populated roFileLikeDir, a Lookup that asked the client
\* nothing returned a version.
C20_Witness ==
    /\ Listed("roFileLikeDir") /\ last.op = "Lookup"
    /\ CallsOf(last) = 0
    /\ last.err = OK /\ last.ret \in NodesOf("roFileVersion")

\* The threads that are inside condRefresh, past its first test.
Refreshing == {t \in Threads : threads[t].pc \in {"go1", "go2", "join", "describe"}}

\* A step in which the condRefresh of the thread t, having queried the
\* client, returns nil.
RefreshReturnsNil(t) ==
    /\ threads[t].pc \in {"join", "describe"}
    /\ threads'[t].pc = "finish"

\* C11, for the versionsDir: under every interleaving of ReadDir and Lookup
\* calls, at most one thread is inside a refresh at a time, and a refresh
\* that queried and returned nil comes no sooner than versionsRefreshTime
\* after the one before.
C11_OneRefreshPerWindow ==
    [][/\ Cardinality(Refreshing) <= 1
       /\ \A t \in Threads :
             RefreshReturnsNil(t) => now - lastOK >= versionsRefreshTime
      ]_vars

\* C16: a thread waits in grp.Err only with both searches started; Describe
\* is called only when both searches have returned, neither with an error;
\* a refresh calls Describe at most once, and never after a search failed.
C16_FanOutJoin ==
    /\ \A t \in Threads :
          LET th == threads[t]
          IN  (th.pc # "idle" /\ th.node = 0)
              => /\ th.pc = "join"
                    => th.root.st # "unstarted" /\ th.imp.st # "unstarted"
                 /\ (th.pc = "describe" \/ th.describes > 0)
                    => /\ th.root.st = "done" /\ ~th.root.err
                       /\ th.imp.st = "done" /\ ~th.imp.err
                 /\ (th.pc = "finish" /\ th.searches > 0)
                    => th.root.st = "done" /\ th.imp.st = "done"
                 /\ th.describes <= 1
                 /\ th.searches <= 2
    /\ (last.node = 0 /\ IsListing(last))
       => /\ last.describes <= 1
          /\ last.fault = "GetPermanodesWithAttr" => last.describes = 0

\* C16's case: a thread is about to call Describe, the import search having
\* returned its permanode and the root search, started first, its own, while
\* the other thread waits for n.mu.
C16_Witness ==
    \E t \in Threads, u \in Threads :
       /\ threads[t].pc = "describe"
       /\ threads[t].root.res # << >> /\ threads[t].imp.res # << >>
       /\ threads[u].pc = "lock"

\* The threads that wait for the client's answer inside the populate of the
\* directory at index id.
Populating(id) == {t \in Threads : threads[t].pc = "query" /\ threads[t].node = id}

\* C11, for roDirV and roFileLikeDir: under every interleaving of ReadDir and
\* Lookup calls, at most one thread is inside the queries of a directory's
\* populate, and only while its children are nil; children once set are the
\* ones every later caller reads.
C11_PopulatedByOneCaller ==
    [][\A id \in NodesOf("roDirV") \cup NodesOf("roFileLikeDir") :
          /\ Cardinality(Populating(id)) <= 1
          /\ Populating(id) # {} => IsNil(nodes[id].children)
          /\ ~IsNil(nodes[id].children) => nodes'[id].children = nodes[id].children
      ]_vars

\* Two threads have called the same unpopulated directory: one waits for the
\* client's answer, the other for n.mu.
C11_TwoCallers ==
    \E t \in Threads, u \in Threads :
       /\ threads[t].pc = "query" /\ threads[u].pc = "plock"
       /\ threads[t].node = threads[u].node

\* The roFileVersion objects among the children of the directory at index id.
VersionsOf(id) == {v \in NodesOf("roFileVersion") : nodes[v].parent = id}

\* C21: in a roFileLikeDir every inode is Sum64 of the directory's permanode:
\* the one of each entry its ReadDir lists, the one in the Attr of each of
\* its roFileVersion children, and the one in the Attr of the directory.
C21_VersionsShareInode ==
    /\ (Listed("roFileLikeDir") /\ last.op = "ReadDir" /\ last.err = OK)
       => \A e \in last.ents : e.Inode = Sum64(nodes[last.node].permanode)
    /\ (last.op = "Attr" /\ last.node \in NodesOf("roFileVersion"))
       => last.attr.v.Inode = Sum64(nodes[nodes[last.node].parent].permanode)
    /\ (last.op = "Attr" /\ last.node \in NodesOf("roFileLikeDir"))
       => last.attr.v.Inode = Sum64(nodes[last.node].permanode)
    /\ \A d \in NodesOf("roFileLikeDir") : \A v \in VersionsOf(d) :
          /\ nodes[v].permanode = nodes[d].permanode
          /\ roFileVersionAttr(nodes[v]).Inode = roDirAttr(nodes[d]).Inode

\* C21's case: Attr was called on one of two versions of a file, whose
\* contents differ.
C21_Witness ==
    /\ last.op = "Attr" /\ last.node \in NodesOf("roFileVersion")
    /\ \E v \in VersionsOf(nodes[last.node].parent) :
          /\ v # last.node
          /\ nodes[v].content # nodes[last.node].content
          /\ Sum64(nodes[v].content) # Sum64(nodes[v].permanode)

\* The threads that hold the mutex of the node k.
Holders(k) == {t \in Threads : Holds(t, k)}

\* The thread t is inside a call.
InCall(t) == threads[t].pc # "idle"

\* The mutex of every node has at most one holder, a thread about to lock a
\* mutex does not hold it, and a thread about to return from Attr holds none.
C22_LockDiscipline ==
    /\ \A k \in 0 .. MaxNodes : Cardinality(Holders(k)) <= 1
    /\ \A t \in Threads :
          (InCall(t) /\ threads[t].pc \in {"plock", "rlock", "attr_lock", "modTime_lock",
                                           "accessTime_lock", "return"})
          => \A k \in 0 .. MaxNodes : ~Holds(t, k)

\* C22: under every interleaving, every ReadDir, Lookup and Attr call in
\* progress eventually returns, the client answering every call made to it.
C22_EveryCallReturns ==
    \A t \in Threads : InCall(t) ~> ~InCall(t)

\* Every call in progress eventually returns unless a handler panics.
C22_ReturnsUnlessPanic ==
    \A t \in Threads : InCall(t) ~> (~InCall(t) \/ panicked)

\* One thread is inside the modTime that accessTime called, holding n.mu,
\* and the other waits for the same mutex in Attr.
C22_Contended ==
    \E t \in Threads, u \in Threads :
       /\ threads[t].pc = "modTime" /\ threads[t].after = "return"
       /\ threads[u].pc = "attr_lock" /\ threads[u].node = threads[t].node

============================================================================
